---------------------------- MODULE Spec2Model ----------------------------
(***************************************************************************)
(* Model of scripts/generate_sfx.py: the shaping utilities (normalize,     *)
(* fade), the primitive generators (tone, noise), the eleven composers,    *)
(* the encoder/writer save_mp3 and the driver.                             *)
(*                                                                         *)
(* Numbers.  Sample counts are Python ints and are modelled exactly.       *)
(* Where a claim depends on floating-point rounding (normalize), a float   *)
(* is an IEEE-754 binary64 value [sign, m, e]: m is the 53-bit significand *)
(* as a sequence of bits, most significant first, and the value is         *)
(* sign * m * 2^e.  Where the property does not depend on rounding (fade   *)
(* ramps, quantization of dyadic samples, slice offsets) a float is an     *)
(* exact rational <<n, d>> in lowest terms, d > 0.                         *)
(***************************************************************************)
EXTENDS Integers, Sequences, FiniteSets, TLC

VARIABLES
    pc,       \* position of the running call or of the driver
    arg,      \* arguments of the function under call (function-level runs)
    res,      \* its return value
    idx,      \* driver: index of the asset being generated (1..11)
    dir,      \* filesystem: OUTPUT_DIR exists
    wav,      \* filesystem: names whose <name>.wav is present
    mp3,      \* filesystem: name -> state of <name>.mp3
    sig,      \* the signal being composed / handed to save_mp3
    segs,     \* music composers: the [start, end) slices written so far
    events,   \* history of the run's filesystem-affecting events
    out,      \* stdout: the success lines printed so far, in order
    env       \* environment of the run (encoder installed, directory writable)

vars == <<pc, arg, res, idx, dir, wav, mp3, sig, segs, events, out, env>>
runVars == <<idx, dir, wav, mp3, sig, segs, events, out, env>>

None == "none"

(***************************************************************************)
(* Bounds of the function-level runs.                                      *)
(***************************************************************************)
MaxLen == 4          \* longest concrete signal given to fade
MaxNormLen == 2      \* longest concrete signal given to normalize
MaxAmp == 3          \* normalize: samples are drawn from -MaxAmp..MaxAmp
MaxDur == 16         \* longest duration (ms) given to tone / noise
MaxFailures == 2     \* encoder invocations that may exit non-zero in one run

SAMPLE_RATE == 44100
INT16_SCALE == 32767
MANT_BITS == 53

(***************************************************************************)
(* Integers and exact rationals.                                           *)
(***************************************************************************)
Abs(x) == IF x < 0 THEN -x ELSE x
Sgn(x) == IF x < 0 THEN -1 ELSE IF x = 0 THEN 0 ELSE 1

RECURSIVE Gcd(_, _)
Gcd(a, b) == IF b = 0 THEN a ELSE Gcd(b, a % b)

Rat(n, d) ==
    LET g == Gcd(Abs(n), Abs(d))
        s == IF d < 0 THEN -1 ELSE 1
    IN  <<(s * n) \div g, (s * d) \div g>>

RMul(p, q) == Rat(p[1] * q[1], p[2] * q[2])
RLe(p, q) == p[1] * q[2] <= q[1] * p[2]
IntR(k) == <<k, 1>>

\* Python int(x) and numpy astype(int): truncation toward zero of n/d, d > 0.
TruncDiv(n, d) == IF n >= 0 THEN n \div d ELSE -((-n) \div d)

\* Python round(x): nearest integer, halves to the even neighbour.
RoundDiv(n, d) ==
    LET f == n \div d
        r == n % d
    IN  IF 2 * r < d THEN f
        ELSE IF 2 * r > d THEN f + 1
        ELSE IF f % 2 = 0 THEN f ELSE f + 1

\* int(SAMPLE_RATE * ms / 1000) for a duration of ms = <<n, d>> milliseconds.
\* SAMPLE_RATE * ms is exact in binary64 for the durations used here and the
\* correctly rounded quotient has the same integer part as the exact one.
NSamplesQ_round(ms) == RoundDiv(SAMPLE_RATE * ms[1], 1000 * ms[2])

NSamplesQ(ms) == TruncDiv(SAMPLE_RATE * ms[1], 1000 * ms[2])
NSamples(duration_ms) == NSamplesQ(IntR(duration_ms))

(***************************************************************************)
(* IEEE-754 binary64 arithmetic on bit sequences (round to nearest, ties   *)
(* to even; no overflow, underflow or subnormals arise for the inputs).    *)
(***************************************************************************)
RECURSIVE BitsOf(_)
BitsOf(n) == IF n = 0 THEN <<>> ELSE Append(BitsOf(n \div 2), n % 2)

ZeroBits(k) == [i \in 1..k |-> 0]

RECURSIVE Strip(_)
Strip(B) == IF B # <<>> /\ B[1] = 0 THEN Strip(Tail(B)) ELSE B

\* B + 1 and B - 1 for a bit sequence B (B > 0 for DecBits)
IncBits(B) ==
    IF \A i \in 1..Len(B) : B[i] = 1 THEN <<1>> \o ZeroBits(Len(B))
    ELSE LET j == CHOOSE i \in 1..Len(B) : B[i] = 0 /\ \A h \in (i + 1)..Len(B) : B[h] = 1
         IN  [i \in 1..Len(B) |-> IF i < j THEN B[i] ELSE IF i = j THEN 1 ELSE 0]

DecBits(B) ==
    LET j == CHOOSE i \in 1..Len(B) : B[i] = 1 /\ \A h \in (i + 1)..Len(B) : B[h] = 0
    IN  [i \in 1..Len(B) |-> IF i < j THEN B[i] ELSE IF i = j THEN 0 ELSE 1]

\* value(B[lo..hi]) * k + carry, as hi-lo+1 low bits and the carry out of
\* them: schoolbook multiplication from the low end.  The range is halved and
\* the low half is computed before the high half is entered.
RECURSIVE MulRange(_, _, _, _, _)
MulRange(B, k, lo, hi, carry) ==
    IF lo > hi THEN [bits |-> <<>>, c |-> carry]
    ELSE IF lo = hi
    THEN LET t == B[lo] * k + carry IN [bits |-> <<t % 2>>, c |-> t \div 2]
    ELSE LET mid == (lo + hi) \div 2
             low == MulRange(B, k, mid + 1, hi, carry)
         IN  IF low.c < 0 THEN low
             ELSE LET high == MulRange(B, k, lo, mid, low.c)
                  IN  [bits |-> high.bits \o low.bits, c |-> high.c]

\* bits of value(B) * k
MulBits(B, k) ==
    LET p == MulRange(B, k, 1, Len(B), 0) IN BitsOf(p.c) \o p.bits

\* long division of B[lo..hi] by d with remainder r coming in from the left:
\* quotient bits and the remainder going out.  The range is halved and the
\* high half is computed before the low half is entered.
RECURSIVE DivRange(_, _, _, _, _)
DivRange(B, d, lo, hi, r) ==
    IF lo > hi THEN [q |-> <<>>, r |-> r]
    ELSE IF lo = hi
    THEN LET t == 2 * r + B[lo] IN [q |-> <<t \div d>>, r |-> t % d]
    ELSE LET mid == (lo + hi) \div 2
             high == DivRange(B, d, lo, mid, r)
         IN  IF high.r < 0 THEN high
             ELSE LET low == DivRange(B, d, mid + 1, hi, high.r)
                  IN  [q |-> high.q \o low.q, r |-> low.r]

\* quotient bits and remainder of value(B) divided by d
DivBits(B, d) == DivRange(B, d, 1, Len(B), 0)

FZero == [sign |-> 0, m |-> <<>>, e |-> 0]

\* The binary64 nearest to sign * (value(B) + f) * 2^e, where 0 <= f < 1 and
\* sticky says f > 0; B has no leading zero.
RoundBits(sign, B, sticky, e) ==
    LET L == Len(B) IN
    IF L = 0 THEN FZero
    ELSE IF L <= MANT_BITS
    THEN [sign |-> sign, m |-> B \o ZeroBits(MANT_BITS - L), e |-> e - (MANT_BITS - L)]
    ELSE LET top == SubSeq(B, 1, MANT_BITS)
             guard == B[MANT_BITS + 1]
             rest == sticky \/ \E i \in (MANT_BITS + 2)..L : B[i] = 1
             up == guard = 1 /\ (rest \/ top[MANT_BITS] = 1)
             m0 == IF up THEN IncBits(top) ELSE top
         IN  IF Len(m0) > MANT_BITS
             THEN [sign |-> sign, m |-> SubSeq(m0, 1, MANT_BITS), e |-> e + (L - MANT_BITS) + 1]
             ELSE [sign |-> sign, m |-> m0, e |-> e + (L - MANT_BITS)]

\* float(k) for a small integer k (exact).
FromInt(k) == RoundBits(Sgn(k), BitsOf(Abs(k)), FALSE, 0)

\* The float literal a/b written in decimal (0.45 is FLit(45, 100)), a, b > 0.
FLit(a, b) ==
    LET dv == DivBits(BitsOf(a) \o ZeroBits(64), b)
    IN  RoundBits(1, Strip(dv.q), dv.r # 0, -64)

\* x / d for a float x > 0 and a float d with a small positive integer value.
FDivInt(x, d) ==
    LET dv == DivBits(x.m \o ZeroBits(10), d)
    IN  RoundBits(x.sign, Strip(dv.q), dv.r # 0, x.e - 10)

\* k * x for a float k with a small integer value and a float x.
FMulInt(k, x) ==
    IF k = 0 \/ x.sign = 0 THEN FZero
    ELSE RoundBits(Sgn(k) * x.sign, MulBits(x.m, Abs(k)), FALSE, x.e)

FAbs(x) == [x EXCEPT !.sign = Abs(x.sign)]

\* |x| < |y|
FAbsLess(x, y) ==
    IF y.sign = 0 THEN FALSE
    ELSE IF x.sign = 0 THEN TRUE
    ELSE IF x.e # y.e THEN x.e < y.e
    ELSE \E i \in 1..MANT_BITS :
            /\ x.m[i] < y.m[i]
            /\ \A j \in 1..(i - 1) : x.m[j] = y.m[j]

\* the float just above x > 0, and the one just below
FSucc(x) ==
    LET m1 == IncBits(x.m)
    IN  IF Len(m1) > MANT_BITS
        THEN [x EXCEPT !.m = SubSeq(m1, 1, MANT_BITS), !.e = x.e + 1]
        ELSE [x EXCEPT !.m = m1]

FPred(x) ==
    IF \A i \in 2..MANT_BITS : x.m[i] = 0
    THEN [x EXCEPT !.m = [i \in 1..MANT_BITS |-> 1], !.e = x.e - 1]
    ELSE [x EXCEPT !.m = DecBits(x.m)]

\* np.max(np.abs(signal)) of a sequence of floats; 0 for the model's empty one
RECURSIVE FMaxAbs(_)
FMaxAbs(s) ==
    IF s = <<>> THEN FZero
    ELSE LET h == FAbs(Head(s))
             t == FMaxAbs(Tail(s))
         IN  IF FAbsLess(h, t) THEN t ELSE h

(***************************************************************************)
(* normalize (lines 12-16).  signal is a sequence of floats with integer   *)
(* values, given by those integers; peak is the float literal a/b given as *)
(* <<a, b>>.  The result is a sequence of binary64 values.                 *)
(***************************************************************************)
RECURSIVE MaxAbsInt(_)
MaxAbsInt(s) ==
    IF s = <<>> THEN 0
    ELSE LET t == MaxAbsInt(Tail(s))
         IN  IF Abs(Head(s)) > t THEN Abs(Head(s)) ELSE t

normalize_noabs(signal, peak) ==
    LET mx == IF signal = <<>> THEN 0
              ELSE CHOOSE v \in {signal[i] : i \in 1..Len(signal)} :
                       \A i \in 1..Len(signal) : signal[i] <= v
    IN  IF mx > 0
        THEN [i \in 1..Len(signal) |-> FMulInt(signal[i], FDivInt(FLit(peak[1], peak[2]), mx))]
        ELSE [i \in 1..Len(signal) |-> FromInt(signal[i])]

normalize(signal, peak) ==
    LET mx == MaxAbsInt(signal)
    IN  IF mx > 0
        THEN [i \in 1..Len(signal) |-> FMulInt(signal[i], FDivInt(FLit(peak[1], peak[2]), mx))]
        ELSE [i \in 1..Len(signal) |-> FromInt(signal[i])]

\* the target peaks the composers pass, and the default
Peaks == {<<5, 10>>, <<6, 10>>, <<35, 100>>, <<4, 10>>, <<45, 100>>, <<8, 10>>}

RECURSIVE SeqsUpTo(_, _)
SeqsUpTo(S, n) ==
    IF n = 0 THEN {<<>>}
    ELSE LET P == SeqsUpTo(S, n - 1)
         IN  P \cup {Append(s, v) : s \in {p \in P : Len(p) = n - 1}, v \in S}

SampleVals == (-MaxAmp)..MaxAmp

RunIdle ==
    /\ idx = 0 /\ dir = FALSE /\ wav = {} /\ mp3 = <<>> /\ sig = None
    /\ segs = <<>> /\ events = <<>> /\ out = <<>> /\ env = None

InitNormalize ==
    /\ pc = "normalize"
    /\ arg \in {[signal |-> s, peak |-> p] : s \in SeqsUpTo(SampleVals, MaxNormLen) \ {<<>>}, p \in Peaks}
    /\ res = None
    /\ RunIdle

NormalizeCall ==
    /\ pc = "normalize"
    /\ res' = normalize(arg.signal, arg.peak)
    /\ pc' = "normalize_ret"
    /\ UNCHANGED <<arg, runVars>>

SpecNormalize == InitNormalize /\ [][NormalizeCall]_vars

(***************************************************************************)
(* fade (lines 18-25) on a concrete signal: a sequence of exact rationals. *)
(* The ramp values and the products are exact here; binary64 rounds them   *)
(* monotonically and keeps 0 and 1 and x * 0 and x * 1 exact.              *)
(***************************************************************************)
\* np.linspace(start, stop, num) for start, stop in {0, 1}: the endpoint is
\* included, and a single sample is start.
linspace_noend(start, stop, num) ==
    [k \in 1..num |-> Rat(start * num + (k - 1) * (stop - start), num)]

linspace(start, stop, num) ==
    [k \in 1..num |->
        IF num = 1 THEN IntR(start)
        ELSE Rat(start * (num - 1) + (k - 1) * (stop - start), num - 1)]

\* the guards of lines 21 and 23
FadeApplies_le(n_fade, n) == n_fade > 0 /\ n_fade <= n

FadeApplies(n_fade, n) == n_fade > 0 /\ n_fade < n

\* signal[:fade_in] *= ramp   and   signal[-fade_out:] *= ramp
MulHead(signal, fade_in, ramp) ==
    [i \in 1..Len(signal) |-> IF i <= fade_in THEN RMul(signal[i], ramp[i]) ELSE signal[i]]

MulTail(signal, fade_out, ramp) ==
    LET n == Len(signal) IN
    [i \in 1..n |-> IF i > n - fade_out THEN RMul(signal[i], ramp[i - (n - fade_out)]) ELSE signal[i]]

fade(signal, fade_in_ms, fade_out_ms) ==
    LET fade_in == NSamplesQ(fade_in_ms)
        fade_out == NSamplesQ(fade_out_ms)
        s1 == IF FadeApplies(fade_in, Len(signal))
              THEN MulHead(signal, fade_in, linspace(0, 1, fade_in))
              ELSE signal
    IN  IF FadeApplies(fade_out, Len(s1))
        THEN MulTail(s1, fade_out, linspace(1, 0, fade_out))
        ELSE s1

\* a duration of k + 1/2 samples, in ms: int() makes it k samples
HalfSampleMs(k) == Rat(1000 * (2 * k + 1), 2 * SAMPLE_RATE)

FadeMs == {HalfSampleMs(k) : k \in 0..(MaxLen + 1)} \cup {IntR(-1), IntR(0), IntR(2)}
FadeVals == {IntR(-1), IntR(0), IntR(2)}

InitFade ==
    /\ pc = "fade"
    /\ arg \in {[signal |-> s, fade_in_ms |-> a, fade_out_ms |-> b] :
                    s \in SeqsUpTo(FadeVals, MaxLen), a \in FadeMs, b \in FadeMs}
    /\ res = None
    /\ RunIdle

FadeCall ==
    /\ pc = "fade"
    /\ res' = fade(arg.signal, arg.fade_in_ms, arg.fade_out_ms)
    /\ pc' = "fade_ret"
    /\ UNCHANGED <<arg, runVars>>

SpecFade == InitFade /\ [][FadeCall]_vars

(***************************************************************************)
(* Quantization in save_mp3 (line 30): (signal * 32767).astype(np.int16).  *)
(* A sample is a dyadic rational k / 2^QBits in [-1, 1], for which the     *)
(* binary64 product with 32767 is exact; astype truncates toward zero.     *)
(***************************************************************************)
QBits == 4

Quantize_round(s) == RoundDiv(s[1] * INT16_SCALE, s[2])

Quantize(s) == TruncDiv(s[1] * INT16_SCALE, s[2])

RECURSIVE Pow2(_)
Pow2(k) == IF k = 0 THEN 1 ELSE 2 * Pow2(k - 1)

InitQuantize ==
    /\ pc = "quantize"
    /\ arg \in {[s |-> Rat(k, Pow2(QBits))] : k \in (-Pow2(QBits))..Pow2(QBits)}
    /\ res = None
    /\ RunIdle

QuantizeCall ==
    /\ pc = "quantize"
    /\ res' = Quantize(arg.s)
    /\ pc' = "quantize_ret"
    /\ UNCHANGED <<arg, runVars>>

SpecQuantize == InitQuantize /\ [][QuantizeCall]_vars

(***************************************************************************)
(* Signals of realistic length.  A composer's signal has thousands of      *)
(* samples; what the composers and save_mp3 depend on is kept:             *)
(*   ok     FALSE once numpy has raised (negative length, shape mismatch)  *)
(*   len    the number of samples                                          *)
(*   first, last   the two end samples, each up to a positive scale factor *)
(*   norm   <<a, b>> when the signal is the value normalize returned for   *)
(*          the target peak a/b, <<>> otherwise                            *)
(*   sums   the operand lengths <<left, right>> of every elementwise sum   *)
(*          and of every slice-then-sum that built the signal              *)
(* Values that depend on sin() or on the random source are any of EndVals. *)
(***************************************************************************)
EndVals == {-1, 0, 1}

Raised == [ok |-> FALSE, len |-> 0, first |-> 0, last |-> 0, norm |-> <<>>, sums |-> {}]

Sig(n, a, b) == [ok |-> TRUE, len |-> n, first |-> a, last |-> b, norm |-> <<>>, sums |-> {}]

\* np.zeros(int(SAMPLE_RATE * ms / 1000))
zeros_plus1(ms) == Sig(NSamples(ms) + 1, 0, 0)

zeros(ms) == Sig(NSamples(ms), 0, 0)

\* tone (lines 38-40): np.linspace raises for a negative number of samples;
\* sample 0 is sin(0) * volume = 0.
tone(freq, duration_ms, volume) ==
    LET n == NSamples(duration_ms) IN
    IF n < 0 THEN {Raised}
    ELSE IF n = 0 THEN {Sig(0, 0, 0)}
    ELSE IF n = 1 THEN {Sig(1, 0, 0)}
    ELSE {Sig(n, 0, b) : b \in EndVals}

\* noise (lines 42-44): np.random.randn raises for a negative dimension.
noise(duration_ms, volume) ==
    LET n == NSamples(duration_ms) IN
    IF n < 0 THEN {Raised}
    ELSE IF n = 0 THEN {Sig(0, 0, 0)}
    ELSE IF n = 1 THEN {Sig(1, a, a) : a \in EndVals}
    ELSE {Sig(n, a, b) : a \in EndVals, b \in EndVals}

\* a + b on arrays: equal lengths, or one of length 1 is broadcast
Add(a, b) ==
    IF ~a.ok \/ ~b.ok THEN Raised
    ELSE IF a.len = b.len
    THEN [Sig(a.len, a.first + b.first, a.last + b.last)
            EXCEPT !.sums = a.sums \cup b.sums \cup {<<a.len, b.len>>}]
    ELSE IF b.len = 1
    THEN [Sig(a.len, a.first + b.first, a.last + b.first)
            EXCEPT !.sums = a.sums \cup b.sums \cup {<<a.len, b.len>>}]
    ELSE IF a.len = 1
    THEN [Sig(b.len, a.first + b.first, a.first + b.last)
            EXCEPT !.sums = a.sums \cup b.sums \cup {<<a.len, b.len>>}]
    ELSE Raised

\* a[:n] for n >= 0.  The end sample of a proper prefix is some inner sample.
Prefix(a, n) ==
    IF ~a.ok THEN {Raised}
    ELSE IF n >= a.len THEN {[a EXCEPT !.norm = <<>>, !.sums = a.sums \cup {<<a.len, n>>}]}
    ELSE IF n = 0 THEN {[Sig(0, 0, 0) EXCEPT !.sums = a.sums \cup {<<a.len, n>>}]}
    ELSE {[Sig(n, a.first, b) EXCEPT !.sums = a.sums \cup {<<a.len, n>>}] : b \in EndVals}

\* np.concatenate([a, b])
Cat(a, b) ==
    IF ~a.ok \/ ~b.ok THEN Raised
    ELSE IF a.len = 0 THEN [b EXCEPT !.norm = <<>>, !.sums = a.sums \cup b.sums]
    ELSE IF b.len = 0 THEN [a EXCEPT !.norm = <<>>, !.sums = a.sums \cup b.sums]
    ELSE [Sig(a.len + b.len, a.first, b.last) EXCEPT !.sums = a.sums \cup b.sums]

RECURSIVE Concat(_)
Concat(parts) ==
    IF Len(parts) = 1 THEN [parts[1] EXCEPT !.norm = <<>>]
    ELSE Cat(parts[1], Concat(Tail(parts)))

\* fade (lines 18-25) on the end samples: the first sample meets ramp value
\* linspace(0, 1, fade_in)[0], the last one linspace(1, 0, fade_out)[-1]; both
\* are 0 or 1, the numerator of the rational.  A fade that applies is shorter
\* than the signal, so the two end samples are different samples.
Fade(s, fade_in_ms, fade_out_ms) ==
    IF ~s.ok THEN Raised
    ELSE LET fade_in == NSamples(fade_in_ms)
             fade_out == NSamples(fade_out_ms)
             a == IF FadeApplies(fade_in, s.len)
                  THEN s.first * linspace(0, 1, fade_in)[1][1]
                  ELSE s.first
             b == IF FadeApplies(fade_out, s.len)
                  THEN s.last * linspace(1, 0, fade_out)[fade_out][1]
                  ELSE s.last
         IN  [s EXCEPT !.first = a, !.last = b, !.norm = <<>>]

\* normalize (lines 12-16) on the end samples: a positive factor, or none.
\* np.max raises on an empty array.
Normalize(s, peak) ==
    IF ~s.ok THEN Raised
    ELSE IF s.len = 0 THEN Raised
    ELSE [s EXCEPT !.norm = peak]

(***************************************************************************)
(* The nine effect composers (lines 48-130): the set of signals each may   *)
(* hand to save_mp3.                                                       *)
(***************************************************************************)
gen_move ==
    {Normalize(Fade(Add(n, t), 2, 40), <<5, 10>>) :
        n \in noise(80, <<6, 10>>), t \in tone(220, 80, <<4, 10>>)}

capture_pad_ms == 70

gen_capture ==
    UNION {{Normalize(Fade(Add(Add(pn, t1), t2), 2, 60), <<6, 10>>) :
                pn \in Prefix(Cat(n, zeros(capture_pad_ms)), t1.len)} :
            n \in noise(50, <<8, 10>>),
            t1 \in tone(330, 120, <<5, 10>>),
            t2 \in tone(165, 120, <<3, 10>>)}

gen_check ==
    {Normalize(Fade(Concat(<<t1, zeros(30), t2>>), 5, 60), <<5, 10>>) :
        t1 \in tone(523, 100, <<6, 10>>), t2 \in tone(659, 120, <<6, 10>>)}

gen_checkmate ==
    {Normalize(Fade(Concat(<<t1, zeros(40), t2, zeros(40), t3>>), 5, 100), <<6, 10>>) :
        t1 \in tone(523, 150, <<6, 10>>),
        t2 \in tone(659, 150, <<6, 10>>),
        t3 \in tone(784, 300, <<7, 10>>)}

gen_castle ==
    {Normalize(Concat(<<Fade(Add(n1, t1), 2, 30), zeros(100), Fade(Add(n2, t2), 2, 30)>>),
               <<5, 10>>) :
        n1 \in noise(60, <<5, 10>>), t1 \in tone(200, 60, <<3, 10>>),
        n2 \in noise(60, <<5, 10>>), t2 \in tone(240, 60, <<3, 10>>)}

gen_illegal ==
    {Normalize(Fade(Add(t1, t2), 5, 80), <<35, 100>>) :
        t1 \in tone(150, 200, <<5, 10>>), t2 \in tone(155, 200, <<3, 10>>)}

gen_undo ==
    {Normalize(Fade(Concat(<<t1, zeros(30), t2>>), 5, 50), <<4, 10>>) :
        t1 \in tone(440, 80, <<5, 10>>), t2 \in tone(330, 100, <<5, 10>>)}

\* the four notes, each faded, with a 50 ms gap after all but the last
gen_game_start ==
    {Normalize(Fade(Concat(<<Fade(t1, 3, 30), zeros(50), Fade(t2, 3, 30), zeros(50),
                             Fade(t3, 3, 30), zeros(50), Fade(t4, 3, 30)>>), 5, 80),
               <<45, 100>>) :
        t1 \in tone(262, 120, <<50, 100>>), t2 \in tone(330, 120, <<55, 100>>),
        t3 \in tone(392, 120, <<60, 100>>), t4 \in tone(523, 120, <<65, 100>>)}

gen_draw ==
    {Normalize(Fade(Concat(<<t1, zeros(50), t2>>), 5, 120), <<4, 10>>) :
        t1 \in tone(392, 200, <<5, 10>>), t2 \in tone(349, 300, <<5, 10>>)}

(***************************************************************************)
(* The two music composers (lines 134-243).  The chord loop is one step    *)
(* per chord; segs collects the slice [start, end) each step writes.       *)
(***************************************************************************)
music_duration == 30
n_chords == 4

\* chord_len = duration / len(chords), exact in binary64
chord_len == Rat(music_duration, n_chords)

\* len(t) = int(SAMPLE_RATE * duration)
MusicLen == TruncDiv(SAMPLE_RATE * music_duration, 1)

\* int(i * chord_len * SAMPLE_RATE): the product is an exact binary64
SegBound(i) == TruncDiv(i * chord_len[1] * SAMPLE_RATE, chord_len[2])

Min(a, b) == IF a < b THEN a ELSE b

\* start, end and seg_len = len(t[start:end]) of chord i = 0..3
Segment_overlap(i) ==
    [start |-> SegBound(i), end |-> SegBound(i + 1) + 1,
     seg_len |-> Min(SegBound(i + 1) + 1, MusicLen) - Min(SegBound(i), MusicLen)]

Segment(i) ==
    [start |-> SegBound(i), end |-> SegBound(i + 1),
     seg_len |-> Min(SegBound(i + 1), MusicLen) - Min(SegBound(i), MusicLen)]

\* signal[:loop_fade] *= linspace(0, 1, loop_fade) and
\* signal[-loop_fade:] *= linspace(1, 0, loop_fade), unguarded
LoopFade(s, loop_fade) ==
    IF ~s.ok \/ loop_fade <= 0 \/ loop_fade > s.len THEN Raised
    ELSE [s EXCEPT !.first = s.first * linspace(0, 1, loop_fade)[1][1],
                   !.last = s.last * linspace(1, 0, loop_fade)[loop_fade][1],
                   !.norm = <<>>]

\* after the chord loop: the layers are added, the loop fade and normalize
gen_music_calm ==
    {Normalize(LoopFade(Sig(MusicLen, a, b), NSamples(2000)), <<35, 100>>) :
        a \in EndVals, b \in EndVals}

gen_music_upbeat ==
    {Normalize(LoopFade(Sig(MusicLen, a, b), NSamples(1500)), <<35, 100>>) :
        a \in EndVals, b \in EndVals}

(***************************************************************************)
(* The driver (lines 246-261) and save_mp3 (lines 27-36).                  *)
(***************************************************************************)
Assets == <<"move", "capture", "check", "checkmate", "castle", "illegal", "undo",
            "game-start", "draw", "music-calm", "music-upbeat">>

Names == {Assets[i] : i \in 1..Len(Assets)}
MusicNames == {"music-calm", "music-upbeat"}

Composer(name) ==
    CASE name = "move" -> gen_move
      [] name = "capture" -> gen_capture
      [] name = "check" -> gen_check
      [] name = "checkmate" -> gen_checkmate
      [] name = "castle" -> gen_castle
      [] name = "illegal" -> gen_illegal
      [] name = "undo" -> gen_undo
      [] name = "game-start" -> gen_game_start
      [] name = "draw" -> gen_draw
      [] name = "music-calm" -> gen_music_calm
      [] name = "music-upbeat" -> gen_music_upbeat

Event(kind, name, rc, q) == [ev |-> kind, asset |-> name, rc |-> rc, q |-> q]

\* the least and greatest int16 that line 30 can produce for the signal
QuantRange(s) ==
    IF s.norm = <<>> THEN <<>>
    ELSE <<Quantize(<<-s.norm[1], s.norm[2]>>), Quantize(s.norm)>>

NFailures == Cardinality({i \in DOMAIN events : events[i].ev = "encode" /\ events[i].rc # 0})

\* output directories the run may start from: none, an empty one, one with
\* every <name>.mp3 of an earlier run, one with a single stale file
StaleSets == {{}, Names} \cup {{n} : n \in Names}

InitRun ==
    /\ pc = "makedirs"
    /\ arg = None /\ res = None
    /\ idx = 0
    /\ env \in [ffmpeg : BOOLEAN, writable : BOOLEAN]
    /\ dir \in BOOLEAN
    /\ wav = {}
    /\ \E stale \in StaleSets :
          /\ dir = FALSE => stale = {}
          /\ mp3 = [n \in Names |-> IF n \in stale THEN "stale" ELSE "absent"]
    /\ sig = None
    /\ segs = <<>>
    /\ events = <<>>
    /\ out = <<>>

\* line 247: os.makedirs(OUTPUT_DIR, exist_ok=True)
MakeDirs ==
    /\ pc = "makedirs"
    /\ IF dir \/ env.writable
       THEN /\ dir' = TRUE
            /\ events' = Append(events, Event("makedirs", "", 0, <<>>))
            /\ idx' = 1
            /\ pc' = "compose"
       ELSE /\ pc' = "aborted"
            /\ UNCHANGED <<dir, events, idx>>
    /\ UNCHANGED <<arg, res, wav, mp3, sig, segs, out, env>>

\* lines 249-257: an effect composer builds its signal and calls save_mp3
ComposeEffect ==
    /\ pc = "compose"
    /\ Assets[idx] \notin MusicNames
    /\ sig' \in Composer(Assets[idx])
    /\ pc' = IF sig'.ok THEN "write_wav" ELSE "aborted"
    /\ UNCHANGED <<arg, res, idx, dir, wav, mp3, segs, events, out, env>>

\* lines 259-260: a music composer allocates its buffer ...
MusicStart ==
    /\ pc = "compose"
    /\ Assets[idx] \in MusicNames
    /\ segs' = <<>>
    /\ pc' = "chords"
    /\ UNCHANGED <<arg, res, idx, dir, wav, mp3, sig, events, out, env>>

\* ... writes one chord segment per iteration (lines 150-171, 203-226) ...
ChordSegment ==
    /\ pc = "chords"
    /\ Len(segs) < n_chords
    /\ segs' = Append(segs, Segment(Len(segs)))
    /\ UNCHANGED <<pc, arg, res, idx, dir, wav, mp3, sig, events, out, env>>

\* ... and finishes the signal and calls save_mp3 (lines 173-182, 228-243)
MusicFinish ==
    /\ pc = "chords"
    /\ Len(segs) = n_chords
    /\ sig' \in Composer(Assets[idx])
    /\ pc' = IF sig'.ok THEN "write_wav" ELSE "aborted"
    /\ UNCHANGED <<arg, res, idx, dir, wav, mp3, segs, events, out, env>>

\* lines 30-31: quantize and wavfile.write; an unwritable directory raises
WriteWav ==
    /\ pc = "write_wav"
    /\ IF env.writable
       THEN /\ wav' = wav \cup {Assets[idx]}
            /\ events' = Append(events, Event("write_wav", Assets[idx], 0, QuantRange(sig)))
            /\ pc' = "encode"
       ELSE /\ pc' = "aborted"
            /\ UNCHANGED <<wav, events>>
    /\ UNCHANGED <<arg, res, idx, dir, mp3, sig, segs, out, env>>

\* lines 32-34: subprocess.run without check=True.  A missing binary raises
\* FileNotFoundError out of save_mp3; a non-zero exit is ignored.
EncodeMissing ==
    /\ pc = "encode"
    /\ ~env.ffmpeg
    /\ events' = Append(events, Event("encode", Assets[idx], 127, <<>>))
    /\ pc' = "aborted"
    /\ UNCHANGED <<arg, res, idx, dir, wav, mp3, sig, segs, out, env>>

EncodeOk ==
    /\ pc = "encode"
    /\ env.ffmpeg
    /\ mp3' = [mp3 EXCEPT ![Assets[idx]] = "fresh"]
    /\ events' = Append(events, Event("encode", Assets[idx], 0, <<>>))
    /\ pc' = "remove_wav"
    /\ UNCHANGED <<arg, res, idx, dir, wav, sig, segs, out, env>>

\* the encoder exits non-zero: it has left the output alone or has left a
\* partial file
EncodeFails ==
    /\ pc = "encode"
    /\ env.ffmpeg
    /\ NFailures < MaxFailures
    /\ \E left \in {mp3[Assets[idx]], "partial"} :
          mp3' = [mp3 EXCEPT ![Assets[idx]] = left]
    /\ events' = Append(events, Event("encode", Assets[idx], 1, <<>>))
    /\ pc' = "remove_wav"
    /\ UNCHANGED <<arg, res, idx, dir, wav, sig, segs, out, env>>

\* line 35: os.remove(wav_path)
RemoveWav ==
    /\ pc = "remove_wav"
    /\ wav' = wav \ {Assets[idx]}
    /\ events' = Append(events, Event("delete_wav", Assets[idx], 0, <<>>))
    /\ pc' = "report"
    /\ UNCHANGED <<arg, res, idx, dir, mp3, sig, segs, out, env>>

\* line 36: os.path.getsize raises when the mp3 is absent; otherwise the
\* success line is printed and the driver goes on to the next composer
Report ==
    /\ pc = "report"
    /\ IF mp3[Assets[idx]] = "absent"
       THEN /\ pc' = "aborted"
            /\ UNCHANGED <<events, out, idx>>
       ELSE /\ out' = Append(out, Assets[idx])
            /\ events' = Append(events, Event("report", Assets[idx], 0, <<>>))
            /\ IF idx < Len(Assets)
               THEN idx' = idx + 1 /\ pc' = "compose"
               ELSE idx' = idx /\ pc' = "done"
    /\ UNCHANGED <<arg, res, dir, wav, mp3, sig, segs, env>>

NextRun ==
    \/ MakeDirs
    \/ ComposeEffect
    \/ MusicStart
    \/ ChordSegment
    \/ MusicFinish
    \/ WriteWav
    \/ EncodeMissing
    \/ EncodeOk
    \/ EncodeFails
    \/ RemoveWav
    \/ Report

SpecRun == InitRun /\ [][NextRun]_vars

(***************************************************************************)
(* tone and noise called on their own, for any duration in ms.             *)
(***************************************************************************)
InitTone ==
    /\ pc \in {"tone", "noise"}
    /\ arg \in {[duration_ms |-> d] : d \in (-3)..MaxDur}
    /\ res = None
    /\ RunIdle

ToneCall ==
    /\ pc = "tone"
    /\ res' \in tone(440, arg.duration_ms, <<1, 1>>)
    /\ pc' = "tone_ret"
    /\ UNCHANGED <<arg, runVars>>

NoiseCall ==
    /\ pc = "noise"
    /\ res' \in noise(arg.duration_ms, <<3, 10>>)
    /\ pc' = "tone_ret"
    /\ UNCHANGED <<arg, runVars>>

NextTone == ToneCall \/ NoiseCall

SpecTone == InitTone /\ [][NextTone]_vars

(***************************************************************************)
(* Specifications that put a whole run beside the calls of one function.   *)
(***************************************************************************)
SpecRunNormalize == (InitRun \/ InitNormalize) /\ [][NextRun \/ NormalizeCall]_vars
SpecRunFade == (InitRun \/ InitFade) /\ [][NextRun \/ FadeCall]_vars
SpecRunQuantize == (InitRun \/ InitQuantize) /\ [][NextRun \/ QuantizeCall]_vars

(***************************************************************************)
(*                              Properties                                 *)
(***************************************************************************)
SavePcs == {"write_wav", "encode", "remove_wav", "report"}
RunPcs == SavePcs \cup {"makedirs", "compose", "chords", "done", "aborted"}

IndexOf(name) == CHOOSE i \in 1..Len(Assets) : Assets[i] = name
StepNo(kind) ==
    CASE kind = "write_wav" -> 1 [] kind = "encode" -> 2
      [] kind = "delete_wav" -> 3 [] kind = "report" -> 4 [] OTHER -> 0
Printed == {out[i] : i \in DOMAIN out}
EncoderFailed == {events[i].asset : i \in {j \in DOMAIN events :
                                              events[j].ev = "encode" /\ events[j].rc # 0}}

\* C1: whenever control is outside save_mp3 - back in the driver after a
\* normal return, or the run has been aborted by an error - no <name>.wav is
\* left in the output directory.
C1_WavDeletedOnEveryPath ==
    pc \in {"compose", "chords", "done", "aborted"} => wav = {}

\* C2: an asset whose encoder invocation failed (binary missing or non-zero
\* exit) never gets its success line printed, and the run does not go on
\* past that asset's save_mp3 call.
C2_EncoderFailureIsFatal ==
    pc \in RunPcs =>
        \A a \in EncoderFailed :
            /\ a \notin Printed
            /\ Assets[idx] = a
            /\ pc \in {"remove_wav", "report", "aborted"}

\* C3: the run's filesystem events are totally ordered: makedirs comes first
\* and only once, before any write; the assets are processed in the fixed
\* order, each asset's write-wav, encode, delete-wav, report steps in that
\* order and all four done before the next asset's first step; and after an
\* error in a step (here: a failed encoder invocation) no later asset starts.
C3_SequentialAndAbortOnError ==
    pc \in RunPcs =>
        /\ \A i \in DOMAIN events : (events[i].ev = "makedirs") <=> (i = 1)
        /\ \A i \in DOMAIN events : i > 1 =>
              /\ events[i].asset \in Names
              /\ IF i = 2 \/ events[i].ev = "write_wav"
                 THEN /\ events[i].ev = "write_wav"
                      /\ i > 2 => /\ events[i - 1].ev = "report"
                                  /\ IndexOf(events[i].asset) = IndexOf(events[i - 1].asset) + 1
                      /\ i = 2 => events[i].asset = Assets[1]
                 ELSE /\ events[i].asset = events[i - 1].asset
                      /\ StepNo(events[i].ev) = StepNo(events[i - 1].ev) + 1
        /\ \A i \in DOMAIN events :
              events[i].ev = "encode" /\ events[i].rc # 0 =>
                  /\ \A j \in DOMAIN events : j > i => events[j].asset = events[i].asset
                  /\ Assets[idx] = events[i].asset
                  /\ pc \notin {"compose", "chords", "write_wav", "done"}

\* the target peak each composer passes to normalize (lines 54 ... 243)
TargetPeak ==
    [n \in Names |->
        CASE n \in {"move", "check", "castle"} -> <<5, 10>>
          [] n \in {"capture", "checkmate"} -> <<6, 10>>
          [] n \in {"illegal", "music-calm", "music-upbeat"} -> <<35, 100>>
          [] n \in {"undo", "draw"} -> <<4, 10>>
          [] n = "game-start" -> <<45, 100>>]

HandedNormalized ==
    pc \in SavePcs =>
        /\ sig.ok
        /\ sig.norm = TargetPeak[Assets[idx]]
        /\ RLe(sig.norm, IntR(1))

NormPeak == FLit(arg.peak[1], arg.peak[2])

\* C4 as stated: the signal save_mp3 receives is what normalize returned for
\* the composer's target peak (<= 1.0); normalize returns a signal whose
\* maximum absolute sample EQUALS the target peak when some sample is
\* non-zero, and the input unchanged when every sample is zero.
C4_PeakEqualsTarget ==
    /\ HandedNormalized
    /\ pc = "normalize_ret" =>
          IF MaxAbsInt(arg.signal) > 0
          THEN FMaxAbs(res) = NormPeak
          ELSE res = [i \in 1..Len(arg.signal) |-> FromInt(arg.signal[i])]

\* C4 amended: as C4, with the maximum absolute sample within one unit in
\* the last place of the target peak (the peak itself or one of its two
\* binary64 neighbours) instead of equal to it.
C4_PeakWithinOneUlp ==
    /\ HandedNormalized
    /\ pc = "normalize_ret" =>
          IF MaxAbsInt(arg.signal) > 0
          THEN FMaxAbs(res) \in {FPred(NormPeak), NormPeak, FSucc(NormPeak)}
          ELSE res = [i \in 1..Len(arg.signal) |-> FromInt(arg.signal[i])]

\* normalize has returned a signal whose peak is one ulp off the target
C4_Witness ==
    /\ pc = "normalize_ret"
    /\ MaxAbsInt(arg.signal) > 0
    /\ FMaxAbs(res) = FPred(NormPeak)

RDiv(p, q) == Rat(p[1] * q[2], p[2] * q[1])
Zero == IntR(0)
One == IntR(1)

FadeLen == Len(arg.signal)
FadeIn == NSamplesQ(arg.fade_in_ms)
FadeOut == NSamplesQ(arg.fade_out_ms)
\* the signal as the fade-in alone leaves it
AfterFadeIn == fade(arg.signal, arg.fade_in_ms, Zero)
\* the multiplier the fade-out is seen to apply at index i (where defined)
Seen(i) == RDiv(res[i], AfterFadeIn[i])
\* over the last F samples the multiplier goes from 1 to 0 and never rises
RampSeen(F) ==
    LET idxs == {i \in (FadeLen - F + 1)..FadeLen : AfterFadeIn[i] # Zero} IN
    /\ res[FadeLen] = Zero
    /\ res[FadeLen - F + 1] = AfterFadeIn[FadeLen - F + 1]
    /\ \A i \in idxs : RLe(Zero, Seen(i)) /\ RLe(Seen(i), One)
    /\ \A i \in idxs : \A j \in idxs : i < j => RLe(Seen(j), Seen(i))

EncoderInputEndsAtZero == pc \in SavePcs => sig.first = 0 /\ sig.last = 0

\* C5 as stated: for every length L >= 1 and every fade-out of F >= 1
\* samples the last sample is 0 after fade and the multiplier over the last F
\* samples falls monotonically from 1 to 0; and every signal given to the
\* encoder starts and ends with a 0 sample.
C5_FadeOutForAnyLength ==
    /\ EncoderInputEndsAtZero
    /\ pc = "fade_ret" /\ FadeLen >= 1 /\ FadeOut >= 1 =>
          /\ FadeOut <= FadeLen
          /\ RampSeen(FadeOut)

\* C5 amended: the last sample is 0 and the multiplier falls monotonically
\* from 1 to 0 when 2 <= F < L; a fade-out of F >= L samples is skipped, and
\* one of F = 1 < L samples multiplies the last sample by 1; every signal
\* given to the encoder starts and ends with a 0 sample.
C5_FadeOutWhenShorter ==
    /\ EncoderInputEndsAtZero
    /\ pc = "fade_ret" /\ FadeLen >= 1 /\ FadeOut >= 1 =>
          /\ (2 <= FadeOut /\ FadeOut < FadeLen) => RampSeen(FadeOut)
          /\ (FadeOut = 1 /\ FadeOut < FadeLen) => res = AfterFadeIn
          /\ FadeOut >= FadeLen => res = AfterFadeIn

\* a fade-out shorter than the signal has brought a non-zero last sample to 0
C5_Witness ==
    /\ pc = "fade_ret"
    /\ 2 <= FadeOut /\ FadeOut < FadeLen
    /\ arg.signal[FadeLen] # Zero
    /\ res[FadeLen] = Zero
    /\ \E i \in 1..FadeLen : AfterFadeIn[i] # Zero /\ Seen(i) \notin {Zero, One}

Covering(i) == {k \in DOMAIN segs : segs[k].start <= i /\ i < segs[k].end}

\* C6: the music buffer has 44100 * 30 = 1323000 samples; chord segment i is
\* [i * 330750, (i+1) * 330750), so the segments are 330750 long, pairwise
\* disjoint, and once all four are written every index of the buffer lies in
\* exactly one of them (for music-calm and music-upbeat alike).
C6_ChordSegmentsPartitionBuffer ==
    pc \in RunPcs /\ segs # <<>> =>
        /\ MusicLen = 1323000
        /\ \A k \in DOMAIN segs :
              /\ segs[k].start = (k - 1) * 330750
              /\ segs[k].end - segs[k].start = 330750
              /\ segs[k].seg_len = 330750
        /\ \A k \in DOMAIN segs : \A h \in DOMAIN segs :
              k < h => segs[k].end <= segs[h].start
        /\ Len(segs) = n_chords =>
              /\ segs[1].start = 0
              /\ segs[n_chords].end = MusicLen
              /\ \A k \in 1..(n_chords - 1) : segs[k].end = segs[k + 1].start
              /\ \A k \in DOMAIN segs :
                    \A i \in {segs[k].start, segs[k].start + 1, segs[k].end - 1} :
                        Cardinality(Covering(i)) = 1

\* all four segments of the second music loop have been written
C6_Witness ==
    /\ pc = "chords"
    /\ Assets[idx] = "music-upbeat"
    /\ Len(segs) = n_chords

\* the consecutive tone and gap durations of each effect composer, in ms
EffectMs ==
    [n \in Names \ MusicNames |->
        CASE n = "move" -> 80
          [] n = "capture" -> 120
          [] n = "check" -> 100 + 30 + 120
          [] n = "checkmate" -> 150 + 40 + 150 + 40 + 300
          [] n = "castle" -> 60 + 100 + 60
          [] n = "illegal" -> 200
          [] n = "undo" -> 80 + 30 + 100
          [] n = "game-start" -> 120 + 50 + 120 + 50 + 120 + 50 + 120
          [] n = "draw" -> 200 + 50 + 300]

\* C7: the signal an effect composer hands to save_mp3 has
\* round(44100 * T / 1000) samples, T the sum of its consecutive tone and gap
\* durations (check: 4410 + 1323 + 5292 = 11025), and every two arrays it
\* added had equal lengths (capture: the padded noise and the 120 ms tones).
C7_EffectLengths ==
    pc \in SavePcs /\ Assets[idx] \notin MusicNames =>
        /\ sig.ok
        /\ sig.len = RoundDiv(SAMPLE_RATE * EffectMs[Assets[idx]], 1000)
        /\ Assets[idx] = "check" => sig.len = 4410 + 1323 + 5292 /\ sig.len = 11025
        /\ sig.sums # {} <=> Assets[idx] \in {"move", "capture", "castle", "illegal"}
        /\ \A p \in sig.sums : p[1] = p[2]

\* capture has been composed: its noise was padded and summed with two tones
C7_Witness ==
    /\ pc = "write_wav"
    /\ Assets[idx] = "capture"
    /\ sig.len = 5292
    /\ <<5292, 5292>> \in sig.sums

\* C8 as stated: for every duration d > 0 ms tone and noise return exactly
\* round(44100 * d / 1000) samples, and for d <= 0 the empty signal.
C8_RoundedLength ==
    pc = "tone_ret" =>
        /\ res.ok
        /\ res.len = IF arg.duration_ms > 0
                     THEN RoundDiv(SAMPLE_RATE * arg.duration_ms, 1000)
                     ELSE 0

\* C8 amended: for every whole duration d >= 0 ms tone and noise return
\* exactly floor(44100 * d / 1000) samples (the empty signal for d = 0), which
\* is round(44100 * d / 1000) when d is a multiple of 10 ms; for a whole
\* d < 0 they raise an error.
C8_TruncatedLength ==
    pc = "tone_ret" =>
        IF arg.duration_ms >= 0
        THEN /\ res.ok
             /\ 1000 * res.len <= SAMPLE_RATE * arg.duration_ms
             /\ SAMPLE_RATE * arg.duration_ms < 1000 * (res.len + 1)
             /\ arg.duration_ms % 10 = 0 =>
                   res.len = RoundDiv(SAMPLE_RATE * arg.duration_ms, 1000)
        ELSE ~res.ok

\* 7 ms of noise: 308.7 samples are cut to 308
C8_Witness ==
    /\ pc = "tone_ret"
    /\ arg.duration_ms = 7
    /\ res.ok /\ res.len = 308
    /\ res.first # 0

QuantizedInRange ==
    pc \in RunPcs =>
        \A i \in DOMAIN events :
            events[i].ev = "write_wav" =>
                /\ events[i].q # <<>>
                /\ -INT16_SCALE <= events[i].q[1]
                /\ events[i].q[2] <= INT16_SCALE

\* C9 as stated: a sample s is quantized to round(s * 32767), the nearest
\* integer, whatever its sign; and the quantized values of every composer's
\* signal lie in [-32767, 32767].
C9_QuantizeRounds ==
    /\ QuantizedInRange
    /\ pc = "quantize_ret" => res = RoundDiv(arg.s[1] * INT16_SCALE, arg.s[2])

\* C9 amended: a sample s is quantized to s * 32767 with its fraction cut off
\* (truncation toward zero, for either sign); and the quantized values of
\* every composer's signal lie in [-32767, 32767].
C9_QuantizeTruncates ==
    /\ QuantizedInRange
    /\ pc = "quantize_ret" =>
          /\ Abs(res) * arg.s[2] <= Abs(arg.s[1]) * INT16_SCALE
          /\ Abs(arg.s[1]) * INT16_SCALE < (Abs(res) + 1) * arg.s[2]
          /\ res # 0 => Sgn(res) = Sgn(arg.s[1])

\* -0.5 * 32767 = -16383.5 has become -16383
C9_Witness ==
    /\ pc = "quantize_ret"
    /\ arg.s = <<-1, 2>>
    /\ res = -16383

\* the number of samples a fade really works on: 0 when it is skipped
Effective(n_fade) == IF n_fade <= 0 \/ n_fade >= FadeLen THEN 0 ELSE n_fade

\* C10: fade keeps the length and leaves every sample outside the first
\* fade_in and the last fade_out indices as it was; a fade of length 0 or of
\* length >= the signal length is skipped, whatever the other fade does, so no
\* index outside the signal is touched for any length, 0 included.
C10_FadeFrame ==
    pc = "fade_ret" =>
        /\ Len(res) = FadeLen
        /\ \A i \in 1..FadeLen :
              (i > Effective(FadeIn) /\ i <= FadeLen - Effective(FadeOut)) =>
                  res[i] = arg.signal[i]
        /\ Effective(FadeIn) = 0 /\ Effective(FadeOut) = 0 => res = arg.signal

\* the fade-in was as long as the signal and skipped; the fade-out was applied
C10_Witness ==
    /\ pc = "fade_ret"
    /\ FadeLen >= 2
    /\ FadeIn >= FadeLen
    /\ Effective(FadeOut) > 0
    /\ res[1] = arg.signal[1] /\ res[1] # Zero
    /\ res # arg.signal

=============================================================================
